---- MODULE Spec2Model ----
(***************************************************************************)
(* A model of the XOR file tool (src/main.rs).                             *)
(*                                                                         *)
(* Three specifications share the module:                                  *)
(*   SpecFile  process_file: the chunked read / xor_encrypt / write loop   *)
(*             together with the ProgressPrinter calls it makes;           *)
(*   SpecWalk  process_directory: the filtered directory walk over a small *)
(*             file system, calling process_file at path level;            *)
(*   SpecMain  main and parse_hex_key.                                     *)
(* The variables of the two specifications that are not running keep the   *)
(* values their Init gives them.                                           *)
(***************************************************************************)
EXTENDS Integers, Sequences, FiniteSets, TLC

VARIABLES
    \* ---- process_file (byte level) ----
    key,          \* key: &[u8]
    input,        \* bytes of the file at input_path
    orig,         \* bytes of the file given to the first run
    run,          \* which run of the tool over the file chain this is
    fpc,          \* position in process_file: start, loop, done, failed
    processed,    \* processed: u64
    total_size,   \* total_size (file.metadata()?.len())
    out,          \* bytes written to the output file so far
    updates,      \* the processed argument of every progress.update call
    elapsed,      \* now - last_update, saturated at PROGRESS_INTERVAL + 1
    is_tty,       \* ProgressPrinter.is_tty
    termOps,      \* terminal operations performed by the ProgressPrinter
    printed,      \* completion lines printed by ProgressPrinter::complete
    \* ---- process_directory (path level) ----
    dirs,         \* directories present in the file system
    files,        \* regular files present in the file system
    links,        \* symbolic links present in the file system
    recursive,    \* args.recursive
    wpc,          \* position in process_directory: idle, walking, ok, err
    stack,        \* WalkDir's stack of open directories
    log,          \* calls of process_file in the current run: input, output
    toolDirs,     \* output directories created by process_file
    wrun,         \* number of the current run of the tool over the tree
    \* ---- main ----
    hex_str,      \* args.key
    mpc,          \* position in main
    keyRes,       \* result of parse_hex_key
    summary,      \* whether the total-processing-time line was printed
    result        \* what main returned

fileVars == <<key, input, orig, run, fpc, processed, total_size, out,
              updates, elapsed, is_tty, termOps, printed>>
walkVars == <<dirs, files, links, recursive, wpc, stack, log, toolDirs, wrun>>
mainVars == <<hex_str, mpc, keyRes, summary, result>>
vars == <<fileVars, walkVars, mainVars>>

-----------------------------------------------------------------------------
(* Bounds *)

MaxFileLen == 3      \* longest input file, in bytes
MaxKeyLen == 3       \* longest key, in bytes
MaxFileRuns == 2     \* runs of the tool over a file and then its output
MaxTick == 1         \* largest time between two chunk reads, in ticks

(* Program constants, scaled down to the size of the model *)

BufLen == 2              \* length of the chunk buffer (64 * 1024 in the source)
PROGRESS_INTERVAL == 1   \* throttle interval in ticks (200 ms in the source)

InBytes == {0, 255}      \* byte values the input file is drawn from
KeyBytes == {1, 255}     \* byte values the key is drawn from

-----------------------------------------------------------------------------
(* Helpers *)

Min(a, b) == IF a < b THEN a ELSE b

SeqsUpTo(S, n) == UNION {[1..m -> S] : m \in 0..n}

RECURSIVE XorBits(_, _, _)
XorBits(a, b, n) ==
    IF n = 0 THEN 0
    ELSE (((a % 2) + (b % 2)) % 2) + 2 * XorBits(a \div 2, b \div 2, n - 1)

\* u8 ^ u8
Xor(a, b) == XorBits(a, b, 8)

\* xor_encrypt without the restart of the key index: never used by the model
\* of the code, it is the function the code is compared with.
xor_at(data, k, offset) ==
    IF k = <<>> THEN data
    ELSE [i \in 1..Len(data) |-> Xor(data[i], k[((offset + i - 1) % Len(k)) + 1])]

\* xor_encrypt(data, key): the index i restarts at 0 for every slice.
xor_encrypt(data, k) ==
    IF k = <<>> THEN data
    ELSE [i \in 1..Len(data) |-> Xor(data[i], k[((i - 1) % Len(k)) + 1])]

\* the throttle test alone, without processed == total_size
ShouldUpdateThrottleOnly(since, done, total) == since > PROGRESS_INTERVAL

\* line 232: the condition of the if at the end of the read loop
ShouldUpdate(since, done, total) ==
    since > PROGRESS_INTERVAL \/ done = total

-----------------------------------------------------------------------------
(* process_file, byte level *)

WalkIdle ==
    /\ dirs = {} /\ files = {} /\ links = {}
    /\ recursive = FALSE /\ wpc = "off" /\ stack = <<>>
    /\ log = {} /\ toolDirs = {} /\ wrun = 0

MainIdle ==
    /\ hex_str = <<>> /\ mpc = "off" /\ keyRes = [ok |-> FALSE, bytes |-> <<>>]
    /\ summary = FALSE /\ result = "none"

FileIdle ==
    /\ key = <<>> /\ input = <<>> /\ orig = <<>> /\ run = 0 /\ fpc = "off"
    /\ processed = 0 /\ total_size = 0 /\ out = <<>>
    /\ updates = <<>> /\ elapsed = 0 /\ is_tty = FALSE /\ termOps = {}
    /\ printed = 0

InitFile ==
    /\ key \in SeqsUpTo(KeyBytes, MaxKeyLen)
    /\ input \in SeqsUpTo(InBytes, MaxFileLen)
    /\ orig = input
    /\ run = 1
    /\ fpc = "start"
    /\ processed = 0 /\ total_size = 0 /\ out = <<>>
    /\ updates = <<>> /\ elapsed = 0
    /\ is_tty \in BOOLEAN
    /\ termOps = {} /\ printed = 0
    /\ WalkIdle /\ MainIdle

\* ProgressPrinter::new: the cursor position is queried before is_tty is
\* looked at.
NewOps(tty) ==
    IF tty THEN {"position", "save", "restore"} ELSE {"position"}

\* ProgressPrinter::update: returns at once when not a terminal.
UpdateOps(tty) == IF tty THEN {"moveTo", "clear"} ELSE {}

\* ProgressPrinter::complete: the cursor is moved only on a terminal.
CompleteOps(tty) == IF tty THEN {"moveTo", "clear"} ELSE {}

\* lines 197-218: ProgressPrinter::new, build_output_path, File::open,
\* metadata, create_dir_all, File::create all succeed.
FileOpen ==
    /\ fpc = "start"
    /\ termOps' = termOps \cup NewOps(is_tty)
    /\ total_size' = Len(input)
    /\ processed' = 0
    /\ out' = <<>>
   
    /\ updates' = <<>>
    /\ elapsed' = 0
    /\ fpc' = "loop"
    /\ UNCHANGED <<key, input, orig, run, is_tty, printed>>
    /\ UNCHANGED <<walkVars, mainVars>>

\* line 198: cursor::position()? fails inside ProgressPrinter::new.
FileNewFail ==
    /\ fpc = "start"
    /\ termOps' = termOps \cup {"position"}
    /\ fpc' = "failed"
    /\ UNCHANGED <<key, input, orig, run, processed, total_size, out,
                   updates, elapsed, is_tty, printed>>
    /\ UNCHANGED <<walkVars, mainVars>>

\* lines 200-213: canonicalize, open, metadata, create_dir_all or create fails.
FileOpenFail ==
    /\ fpc = "start"
    /\ termOps' = termOps \cup NewOps(is_tty)
    /\ fpc' = "failed"
    /\ UNCHANGED <<key, input, orig, run, processed, total_size, out,
                   updates, elapsed, is_tty, printed>>
    /\ UNCHANGED <<walkVars, mainVars>>

\* lines 221-235: one iteration of the loop with read_count = n > 0, dt ticks
\* after the previous Instant::now().
FileChunk(n, dt) ==
    /\ fpc = "loop"
    /\ processed < Len(input)
    /\ n \in 1..Min(BufLen, Len(input) - processed)
    /\ LET chunk == SubSeq(input, processed + 1, processed + n)
           since == Min(elapsed + dt, PROGRESS_INTERVAL + 1)
           upd == ShouldUpdate(since, processed + n, total_size)
       IN /\ out' = out \o xor_encrypt(chunk, key)
          /\ processed' = processed + n
          /\ updates' = IF upd THEN Append(updates, processed + n) ELSE updates
          /\ termOps' = IF upd THEN termOps \cup UpdateOps(is_tty) ELSE termOps
          /\ elapsed' = IF upd THEN 0 ELSE since
    /\ UNCHANGED <<key, input, orig, run, fpc, total_size, is_tty, printed>>
    /\ UNCHANGED <<walkVars, mainVars>>

\* lines 221, 227: reader.read or writer.write_all fails.
FileIoFail ==
    /\ fpc = "loop"
    /\ fpc' = "failed"
    /\ UNCHANGED <<key, input, orig, run, processed, total_size, out,
                   updates, elapsed, is_tty, termOps, printed>>
    /\ UNCHANGED <<walkVars, mainVars>>

\* line 233: progress.update(..)? fails on a terminal (execute!, write!, flush).
FileUpdateFail(n, dt) ==
    /\ fpc = "loop"
    /\ is_tty
    /\ processed < Len(input)
    /\ n \in 1..Min(BufLen, Len(input) - processed)
    /\ LET chunk == SubSeq(input, processed + 1, processed + n)
           since == Min(elapsed + dt, PROGRESS_INTERVAL + 1)
       IN /\ ShouldUpdate(since, processed + n, total_size)
          /\ out' = out \o xor_encrypt(chunk, key)
          /\ processed' = processed + n
          /\ updates' = Append(updates, processed + n)
          /\ termOps' = termOps \cup UpdateOps(is_tty)
          /\ elapsed' = since
    /\ fpc' = "failed"
    /\ UNCHANGED <<key, input, orig, run, total_size, is_tty, printed>>
    /\ UNCHANGED <<walkVars, mainVars>>

\* lines 221-223, 238-241: read returns 0, the writer is flushed and
\* progress.complete prints the completion line.
FileEof ==
    /\ fpc = "loop"
    /\ processed = Len(input)
    /\ termOps' = termOps \cup CompleteOps(is_tty)
    /\ printed' = printed + 1
    /\ fpc' = "done"
    /\ UNCHANGED <<key, input, orig, run, processed, total_size, out,
                   updates, elapsed, is_tty>>
    /\ UNCHANGED <<walkVars, mainVars>>

\* The tool is run again, with the same key, on the file it has just written.
FileRerun ==
    /\ fpc = "done"
    /\ run < MaxFileRuns
    /\ run' = run + 1
    /\ input' = out
    /\ fpc' = "start"
    /\ processed' = 0 /\ total_size' = 0 /\ out' = <<>>
    /\ updates' = <<>> /\ elapsed' = 0 /\ termOps' = {} /\ printed' = 0
    /\ UNCHANGED <<key, orig, is_tty>>
    /\ UNCHANGED <<walkVars, mainVars>>

NextFile ==
    \/ FileOpen
    \/ FileNewFail
    \/ FileOpenFail
    \/ \E n \in 1..BufLen, dt \in 0..MaxTick : FileChunk(n, dt)
    \/ FileIoFail
    \/ \E n \in 1..BufLen, dt \in 0..MaxTick : FileUpdateFail(n, dt)
    \/ FileEof
    \/ FileRerun

SpecFile == InitFile /\ [][NextFile]_vars

-----------------------------------------------------------------------------
(* process_directory, path level.  A path is the sequence of its components; *)
(* the walk root is the canonical directory main passes in.                  *)

OUTPUT_DIR == "xor"

MaxPathLen == 5      \* longest path the file system accepts, in components
MaxWalkRuns == 2     \* runs of the tool over the same tree

root == <<"r">>

\* what the tree may hold before the first run
InitFiles == {<<"r", "f">>, <<"r", "a", "f">>, <<"r", "b", "f">>,
              <<"r", "xor">>}
InitLinks == {<<"r", "l">>}
LinkTarget(l) == <<"r", "f">>

StartsWith(p, q) == Len(p) >= Len(q) /\ SubSeq(p, 1, Len(q)) = q

Parent(p) == SubSeq(p, 1, Len(p) - 1)

FileName(p) == p[Len(p)]

Ancestors(p) == {SubSeq(p, 1, n) : n \in 1..(Len(p) - 1)}

Children(d) ==
    {p \in dirs \cup files \cup links : Len(p) = Len(d) + 1 /\ Parent(p) = d}

\* path.components().collect(): "." components are dropped
normalize_path(p) == SelectSeq(p, LAMBDA c : c # ".")

\* Path::canonicalize: a symbolic link is replaced by its target
canonicalize(p) == IF p \in links THEN LinkTarget(p) ELSE p

\* filter_entry without the test on the output directory
filter_entry_no_exclusion(path, isdir, r, rec) ==
    IF isdir THEN rec \/ path = r ELSE TRUE

\* filter_entry descending into every directory, whatever the flag
filter_entry_all_dirs(path, isdir, r, rec) ==
    IF StartsWith(path, normalize_path(r \o <<OUTPUT_DIR>>))
    THEN FALSE
    ELSE TRUE

\* filter_entry(entry, root, recursive), lines 183-194
filter_entry(path, isdir, r, rec) ==
    IF StartsWith(path, normalize_path(r \o <<OUTPUT_DIR>>))
    THEN FALSE
    ELSE IF isdir THEN rec \/ path = r ELSE TRUE

\* build_output_path placing every output in the one directory root/xor
build_output_path_flat(input_path) ==
    LET abs_path == canonicalize(normalize_path(input_path))
    IN  root \o <<OUTPUT_DIR, FileName(abs_path)>>

\* build_output_path(input_path), lines 253-262
build_output_path(input_path) ==
    LET abs_path == canonicalize(normalize_path(input_path))
    IN  Parent(abs_path) \o <<OUTPUT_DIR, FileName(abs_path)>>

\* fs::read_dir(d): the entries present when the directory is opened
Frame(d) == [dir |-> d, todo |-> Children(d), seen |-> {}]

Top == stack[Len(stack)]

InitWalk ==
    /\ \E fs \in SUBSET InitFiles, ls \in SUBSET InitLinks :
          /\ \A p \in fs : Ancestors(p) \cap fs = {}
          /\ files = fs
          /\ links = ls
          /\ dirs = {root} \cup UNION {Ancestors(p) : p \in fs}
    /\ recursive \in BOOLEAN
    /\ wpc = "idle"
    /\ stack = <<>>
    /\ log = {}
    /\ toolDirs = {}
    /\ wrun = 0
    /\ FileIdle /\ MainIdle

\* lines 170-172: WalkDir::new(root).into_iter().filter_entry(..); the first
\* entry is the root itself, opened and then tested by the filter.
WalkStart(rec) ==
    /\ wpc \in {"idle", "ok", "err"}
    /\ wrun < MaxWalkRuns
    /\ wrun' = wrun + 1
    /\ recursive' = IF wrun = 0 THEN recursive ELSE rec
    /\ stack' = IF filter_entry(root, TRUE, root, recursive')
                THEN <<Frame(root)>> ELSE <<>>
    /\ wpc' = "walking"
    /\ log' = {}
    /\ UNCHANGED <<dirs, files, links, toolDirs>>
    /\ UNCHANGED <<fileVars, mainVars>>

\* lines 174-179, an entry the filter rejects: a rejected directory is not
\* descended into (skip_current_dir).
WalkSkip(e) ==
    /\ wpc = "walking" /\ stack # <<>>
    /\ e \in (Top.todo \cup Children(Top.dir)) \ Top.seen
    /\ ~filter_entry(e, e \in dirs, root, recursive)
    /\ stack' = [stack EXCEPT ![Len(stack)].seen = @ \cup {e}]
    /\ UNCHANGED <<dirs, files, links, recursive, wpc, log, toolDirs, wrun>>
    /\ UNCHANGED <<fileVars, mainVars>>

\* lines 174-179, a directory the filter accepts is opened; a symbolic link
\* is yielded and, not being a file, left alone.
WalkEnter(e) ==
    /\ wpc = "walking" /\ stack # <<>>
    /\ e \in (Top.todo \cup Children(Top.dir)) \ Top.seen
    /\ e \notin files
    /\ filter_entry(e, e \in dirs, root, recursive)
    /\ stack' = IF e \in dirs
                THEN Append([stack EXCEPT ![Len(stack)].seen = @ \cup {e}],
                            Frame(e))
                ELSE [stack EXCEPT ![Len(stack)].seen = @ \cup {e}]
    /\ UNCHANGED <<dirs, files, links, recursive, wpc, log, toolDirs, wrun>>
    /\ UNCHANGED <<fileVars, mainVars>>

\* create_dir_all(parent) or File::create(output_path) fails
OutputFails(outp) ==
    \/ Len(outp) > MaxPathLen
    \/ Parent(outp) \in files \cup links
    \/ outp \in dirs

\* lines 176-178 with lines 196-241: a file the filter accepts is passed to
\* process_file, which creates parent/xor and writes parent/xor/name.
WalkFile(e) ==
    /\ wpc = "walking" /\ stack # <<>>
    /\ e \in (Top.todo \cup Children(Top.dir)) \ Top.seen
    /\ e \in files
    /\ filter_entry(e, FALSE, root, recursive)
    /\ LET outp == build_output_path(e)
       IN /\ log' = log \cup {[inp |-> e, outp |-> outp]}
          /\ IF OutputFails(outp)
             THEN /\ wpc' = "err"
                  /\ stack' = <<>>
                  /\ UNCHANGED <<dirs, files, toolDirs>>
             ELSE /\ dirs' = dirs \cup {Parent(outp)}
                  /\ files' = files \cup {outp}
                  /\ toolDirs' = toolDirs \cup ({Parent(outp)} \ dirs)
                  /\ stack' = [stack EXCEPT ![Len(stack)].seen = @ \cup {e}]
                  /\ wpc' = wpc
    /\ UNCHANGED <<links, recursive, wrun>>
    /\ UNCHANGED <<fileVars, mainVars>>

\* the open directory has no more entries; entries created after it was
\* opened need not be reported.  line 180 when the root is finished.
WalkPop ==
    /\ wpc = "walking"
    /\ stack # <<>> => Top.todo \subseteq Top.seen
    /\ stack' = IF stack = <<>> THEN <<>> ELSE SubSeq(stack, 1, Len(stack) - 1)
    /\ wpc' = IF Len(stack) <= 1 THEN "ok" ELSE "walking"
    /\ UNCHANGED <<dirs, files, links, recursive, log, toolDirs, wrun>>
    /\ UNCHANGED <<fileVars, mainVars>>

\* line 175: the walker yields an error (a directory that cannot be read)
WalkError ==
    /\ wpc = "walking"
    /\ wpc' = "err"
    /\ stack' = <<>>
    /\ UNCHANGED <<dirs, files, links, recursive, log, toolDirs, wrun>>
    /\ UNCHANGED <<fileVars, mainVars>>

Candidates == dirs \cup files \cup links

NextWalk ==
    \/ \E rec \in BOOLEAN : WalkStart(rec)
    \/ \E e \in Candidates : WalkSkip(e)
    \/ \E e \in Candidates : WalkEnter(e)
    \/ \E e \in Candidates : WalkFile(e)
    \/ WalkPop
    \/ WalkError

SpecWalk == InitWalk /\ [][NextWalk]_vars

-----------------------------------------------------------------------------
(* main and parse_hex_key.  A string is the sequence of its characters.      *)

MaxHexLen == 4       \* longest --key argument, in characters

Alphabet == {"0", "x", "X", "a", "F", "g"}   \* characters of the --key argument

LowerDigits == <<"0", "1", "2", "3", "4", "5", "6", "7", "8", "9",
                 "a", "b", "c", "d", "e", "f">>
UpperDigits == <<"0", "1", "2", "3", "4", "5", "6", "7", "8", "9",
                 "A", "B", "C", "D", "E", "F">>

IsHexDigit(c) == \E v \in 1..16 : c = LowerDigits[v] \/ c = UpperDigits[v]

HexVal(c) == (CHOOSE v \in 1..16 : c = LowerDigits[v] \/ c = UpperDigits[v]) - 1

\* str::strip_prefix
HasPrefix(s, pre) == Len(s) >= Len(pre) /\ SubSeq(s, 1, Len(pre)) = pre

strip_prefix(s, pre) == SubSeq(s, Len(pre) + 1, Len(s))

\* hex::decode: odd length and non-digits are errors, the empty string decodes
\* to the empty vector
hex_decode(s) ==
    IF Len(s) % 2 # 0 \/ \E i \in 1..Len(s) : ~IsHexDigit(s[i])
    THEN [ok |-> FALSE, bytes |-> <<>>]
    ELSE [ok |-> TRUE,
          bytes |-> [i \in 1..(Len(s) \div 2) |->
                        16 * HexVal(s[2 * i - 1]) + HexVal(s[2 * i])]]

parse_hex_key(s) ==
    hex_decode(IF HasPrefix(s, <<"0", "x">>) THEN strip_prefix(s, <<"0", "x">>)
               ELSE IF HasPrefix(s, <<"0", "X">>) THEN strip_prefix(s, <<"0", "X">>)
               ELSE s)

InitMain ==
    /\ hex_str \in SeqsUpTo(Alphabet, MaxHexLen)
    /\ mpc = "start"
    /\ keyRes = [ok |-> FALSE, bytes |-> <<>>]
    /\ summary = FALSE
    /\ result = "none"
    /\ FileIdle /\ WalkIdle

\* line 136: parse_hex_key(&args.key)?
MainParseKey ==
    /\ mpc = "start"
    /\ keyRes' = parse_hex_key(hex_str)
    /\ IF keyRes'.ok
       THEN mpc' = "resolve" /\ result' = result
       ELSE mpc' = "exit" /\ result' = "err_key"
    /\ UNCHANGED <<hex_str, summary>>
    /\ UNCHANGED <<fileVars, walkVars>>

\* lines 138-141: canonicalize()? of the input path
MainResolve(found) ==
    /\ mpc = "resolve"
    /\ IF found
       THEN mpc' = "process" /\ result' = result
       ELSE mpc' = "exit" /\ result' = "err_path"
    /\ UNCHANGED <<hex_str, keyRes, summary>>
    /\ UNCHANGED <<fileVars, walkVars>>

\* the results process_directory and process_file can hand back to main
Outcomes(isdir) ==
    IF isdir THEN {"ok", "err_walk", "err_io"} ELSE {"ok", "err_io"}

\* lines 143-152: res is computed, the summary is printed, res is returned
MainProcess(isdir, res) ==
    /\ mpc = "process"
    /\ res \in Outcomes(isdir)
    /\ summary' = TRUE
    /\ result' = res
    /\ mpc' = "exit"
    /\ UNCHANGED <<hex_str, keyRes>>
    /\ UNCHANGED <<fileVars, walkVars>>

NextMain ==
    \/ MainParseKey
    \/ \E found \in BOOLEAN : MainResolve(found)
    \/ \E isdir \in BOOLEAN, res \in {"ok", "err_walk", "err_io"} :
          MainProcess(isdir, res)

SpecMain == InitMain /\ [][NextMain]_vars

-----------------------------------------------------------------------------
(* Properties *)

\* C1: after a successful process_file with a non-empty key the output has the
\* length of the input and its byte i is input byte i XOR key[i mod L], the
\* key phase running on from file offset 0 across chunk boundaries.
C1_PeriodicOutput ==
    (fpc = "done" /\ run = 1 /\ key # <<>>) => out = xor_at(input, key, 0)

\* C2: processing a file and then processing the output with the same key
\* gives back the bytes of the file, however the two runs are cut into chunks.
C2_RoundTrip ==
    (fpc = "done" /\ run = 2 /\ key # <<>>) => out = orig

\* C3: in a recursive walk over root, no path equal to or under root/xor is
\* ever passed to process_file.
C3_Exclusion ==
    recursive => \A c \in log : ~StartsWith(c.inp, root \o <<OUTPUT_DIR>>)

\* a second, recursive run has finished and has processed files, while
\* root/xor holds a file that the tool wrote
C3_Witness ==
    /\ wpc = "ok" /\ recursive /\ wrun = 2
    /\ root \o <<OUTPUT_DIR>> \in toolDirs
    /\ \E p \in files : Parent(p) = root \o <<OUTPUT_DIR>>
    /\ log # {}

\* C4: in a recursive run no file inside an output directory that the tool
\* created beneath any visited directory is passed to process_file.
C4_NoSelfProcessing ==
    recursive => \A c \in log : Ancestors(c.inp) \cap toolDirs = {}

\* C5 as stated: a non-recursive run processes exactly the regular files that
\* are direct children of root.
C5_DirectFilesExactly ==
    (wpc = "ok" /\ ~recursive) =>
        {c.inp : c \in log} = {p \in files : Parent(p) = root}

\* C5 as amended: a non-recursive run that completes has processed exactly the
\* regular files that are direct children of root and are not named xor; no
\* file below a subdirectory is ever processed and no directory other than
\* root is kept open.
C5_DirectFilesButOutput ==
    /\ (wpc = "ok" /\ ~recursive) =>
          {c.inp : c \in log} =
              {p \in files : Parent(p) = root /\ FileName(p) # OUTPUT_DIR}
    /\ ~recursive => \A c \in log : Parent(c.inp) = root
    /\ (wpc = "walking" /\ ~recursive) =>
          \A i \in 1..Len(stack) : stack[i].dir = root

\* a non-recursive run has finished and processed a file, in a tree that
\* holds a file in a subdirectory that is not an output directory
C5_Witness ==
    /\ wpc = "ok" /\ ~recursive
    /\ log # {}
    /\ \E p \in files : Len(p) = 3 /\ FileName(Parent(p)) # OUTPUT_DIR

\* C6 as stated: two files of the same name in different directories,
\* processed by one recursive run, are written to the same output path.
C6_Collision ==
    recursive =>
        \A c1, c2 \in log :
            (c1.inp # c2.inp /\ FileName(c1.inp) = FileName(c2.inp))
                => c1.outp = c2.outp

\* C6 as amended: two files of the same name in different directories,
\* processed by one recursive run, are written to different output paths.
C6_DistinctOutputs ==
    recursive =>
        \A c1, c2 \in log :
            (c1.inp # c2.inp /\ FileName(c1.inp) = FileName(c2.inp))
                => c1.outp # c2.outp

\* one recursive run has written the outputs of two files of the same name
C6_Witness ==
    /\ wpc = "ok" /\ recursive
    /\ \E c1, c2 \in log :
          /\ c1.inp # c2.inp
          /\ FileName(c1.inp) = FileName(c2.inp)
          /\ c1.outp \in files /\ c2.outp \in files

\* C7: a run that ends in an error, whatever its kind, has printed the
\* total-processing-time line.
C7_SummaryOnError ==
    (mpc = "exit" /\ result # "ok") => summary

UpdatesAt(n) == {i \in DOMAIN updates : updates[i] = n}

\* C8 as stated: for every file size, update is called with processed equal
\* to the size exactly once, and that call is the last update before complete.
C8_FinalUpdateOnce ==
    fpc = "done" =>
        /\ Cardinality(UpdatesAt(total_size)) = 1
        /\ updates[Len(updates)] = total_size

\* C8 as amended: for a file of size S > 0, update is called with processed
\* equal to S exactly once, as the last update before complete; for an empty
\* file update is never called.
C8_FinalUpdate ==
    fpc = "done" =>
        IF total_size = 0
        THEN updates = <<>>
        ELSE /\ Cardinality(UpdatesAt(total_size)) = 1
             /\ updates[Len(updates)] = total_size

\* a file longer than the buffer is done, after a throttled update and the
\* final one
C8_Witness ==
    fpc = "done" /\ total_size > BufLen /\ Len(updates) >= 2

\* the body of a --key argument: the argument without one leading 0x or 0X
KeyBody(s) ==
    IF Len(s) >= 2 /\ s[1] = "0" /\ s[2] \in {"x", "X"}
    THEN SubSeq(s, 3, Len(s)) ELSE s

\* C9: parse_hex_key returns Ok exactly for the arguments whose body is a
\* non-empty, even-length sequence of hex digits, so a parsed key is never
\* empty.
C9_OkIffValidKey ==
    mpc # "start" =>
        /\ keyRes.ok <=> (/\ KeyBody(hex_str) # <<>>
                          /\ Len(KeyBody(hex_str)) % 2 = 0
                          /\ \A i \in 1..Len(KeyBody(hex_str)) :
                                IsHexDigit(KeyBody(hex_str)[i]))
        /\ keyRes.ok => keyRes.bytes # <<>>

\* C10: when standard output is not a terminal, no ProgressPrinter call
\* performs a terminal operation.
C10_NoTerminalOps ==
    ~is_tty => termOps = {}

====
